---- MODULE Spec2Model ----
(***************************************************************************)
(* hyperglass command line interface (src/hyperglass/cli/main.py).         *)
(* One CLI invocation runs one command handler.  The model covers the      *)
(* handlers with control flow: start, devices, directives, plugins and     *)
(* params.  Text is a sequence of one-character strings; an optional       *)
(* value is <<>> (None) or <<v>>.                                          *)
(***************************************************************************)
EXTENDS Integers, Sequences, FiniteSets, TLC

VARIABLES
    cmd,            \* the command typer dispatched to
    pc,             \* position of the handler
    raised,         \* exception leaving the handler: "None", "typer.Exit", "SystemExit",
                    \* "KeyboardInterrupt", "re.error", "Exception"
    exit_code,      \* code carried by typer.Exit or SystemExit
    echoed,         \* echo.warning / echo.error calls, in order
    console,        \* echo._console.print calls, in order
    calls,          \* calls of build_ui / start_server, in order
    build,          \* start: --build
    workers,        \* start: --workers (optional)
    timeout,        \* build-ui: --timeout
    build_complete, \* start: local build_complete (optional: unset until build_ui returns)
    error_message,  \* start: local error_message (optional: unset until an interrupt is caught)
    service_code,   \* start: exit status the service ended with by itself (optional)
    search,         \* devices/directives/plugins: positional search argument (optional)
    idx,            \* devices/directives: position of the for loop
    show_input,     \* plugins: --input
    show_output,    \* plugins: --output
    path,           \* params: positional path argument (optional)
    state           \* the state store read by use_state()

vars == <<cmd, pc, raised, exit_code, echoed, console, calls, build, workers,
          timeout, build_complete, error_message, service_code, search, idx,
          show_input, show_output, path, state>>

startVars  == <<build, workers, timeout>>
lookupVars == <<search, show_input, show_output, path, state>>

\* ---------------------------------------------------------------- bounds
MaxWorkers  == 2
MaxExitCode == 11
MaxMsgLen   == 2
MaxPatLen   == 3
MaxEntities == 3
MaxPlugins  == 2
MaxPathLen  == 4

\* ---------------------------------------------------------------- helpers
None == <<>>
Some(v) == <<v>>

RECURSIVE SeqsUpTo(_, _)
SeqsUpTo(S, n) ==
    IF n = 0 THEN {<<>>}
    ELSE LET shorter == SeqsUpTo(S, n - 1)
         IN  shorter \cup {Append(s, c) : s \in {t \in shorter : Len(t) = n - 1}, c \in S}

Digit(d) == CASE d = 0 -> "0" [] d = 1 -> "1" [] d = 2 -> "2" [] d = 3 -> "3"
              [] d = 4 -> "4" [] d = 5 -> "5" [] d = 6 -> "6" [] d = 7 -> "7"
              [] d = 8 -> "8" [] d = 9 -> "9"

\* str(n) of a non-negative int
RECURSIVE IntStr(_)
IntStr(n) == IF n < 10 THEN <<Digit(n)>> ELSE Append(IntStr(n \div 10), Digit(n % 10))

\* ---------------------------------------------------------------- start
BuildTimeout == 180

\* default of --timeout of build-ui
DefaultTimeout == 180

StoppingNotice == <<"Stopping hyperglass due to keyboard interrupt.">>

MsgChars == {"o", "k"}
ExitCodes == 0 .. MaxExitCode
Messages == SeqsUpTo(MsgChars, MaxMsgLen)

\* str(err) of a BaseException: "" without args, str(arg) with one arg
NoArgs == [t |-> "none", n |-> 0, s |-> <<>>]
IntArg(n) == [t |-> "int", n |-> n, s |-> <<>>]
StrArg(s) == [t |-> "str", n |-> 0, s |-> s]
ExcStr(a) == CASE a.t = "none" -> <<>>
               [] a.t = "int"  -> IntStr(a.n)
               [] a.t = "str"  -> a.s

\* the status a process ends with when SystemExit(args) is left alone
SystemExitCode(a) == CASE a.t = "none" -> 0
                       [] a.t = "int"  -> a.n
                       [] a.t = "str"  -> 1

ExcArgs == {NoArgs} \cup {IntArg(n) : n \in ExitCodes} \cup {StrArg(s) : s \in Messages}

\* variant: the worker count is dropped
CallServer_default == calls' = Append(calls, [fn |-> "start_server", arg |-> None])

\* start_server(workers)
CallServer == calls' = Append(calls, [fn |-> "start_server", arg |-> workers])

\* variant: every non-empty message is echoed as a warning
OnInterrupt_anymsg(a) ==
    LET msg == ExcStr(a)
    IN  /\ error_message' = Some(msg)
        /\ echoed' = (IF Len(msg) > 0
                      THEN Append(echoed, [level |-> "warning", text |-> msg])
                      ELSE echoed)
                     \o <<[level |-> "error", text |-> StoppingNotice]>>
        /\ raised' = "typer.Exit"
        /\ exit_code' = 0
        /\ pc' = "done"

\* except (KeyboardInterrupt, SystemExit) as err: ... raise typer.Exit(0)
OnInterrupt(a) ==
    LET msg == ExcStr(a)
    IN  /\ error_message' = Some(msg)
        /\ echoed' = (IF Len(msg) > 1
                      THEN Append(echoed, [level |-> "warning", text |-> msg])
                      ELSE echoed)
                     \o <<[level |-> "error", text |-> StoppingNotice]>>
        /\ raised' = "typer.Exit"
        /\ exit_code' = 0
        /\ pc' = "done"

\* an exception the handler does not catch
Propagate(e) ==
    /\ raised' = e
    /\ pc' = "done"
    /\ UNCHANGED <<exit_code, echoed, error_message>>

\* SystemExit(args) the handler does not catch
PropagateExit(a) ==
    /\ raised' = "SystemExit"
    /\ exit_code' = SystemExitCode(a)
    /\ pc' = "done"
    /\ UNCHANGED <<echoed, error_message>>

\* an exception of a callee in a handler without an except clause for it
Uncaught ==
    \/ Propagate("Exception")
    \/ Propagate("KeyboardInterrupt")
    \/ \E a \in ExcArgs : PropagateExit(a)

\* normal return of the handler
Return ==
    /\ pc' = "done"
    /\ UNCHANGED <<raised, exit_code>>

\* if build: build_complete = build_ui(timeout=180)
start_build ==
    /\ cmd = "start" /\ pc = "entry" /\ build
    /\ calls' = Append(calls, [fn |-> "build_ui", arg |-> Some(BuildTimeout)])
    /\ pc' = "BUILDING"
    /\ UNCHANGED <<cmd, raised, exit_code, echoed, console, build_complete,
                   error_message, service_code, idx, startVars, lookupVars>>

\* else: start_server(workers)
start_nobuild ==
    /\ cmd = "start" /\ pc = "entry" /\ ~build
    /\ CallServer
    /\ pc' = "SERVING"
    /\ UNCHANGED <<cmd, raised, exit_code, echoed, console, build_complete,
                   error_message, service_code, idx, startVars, lookupVars>>

\* variant: the service is started whatever build_ui returned
build_returns_nogate ==
    /\ cmd = "start" /\ pc = "BUILDING"
    /\ \E r \in BOOLEAN : build_complete' = Some(r)
    /\ CallServer
    /\ pc' = "SERVING"
    /\ UNCHANGED <<cmd, raised, exit_code, echoed, console, error_message,
                   service_code, idx, startVars, lookupVars>>

\* build_ui returns; if build_complete: start_server(workers)
build_returns ==
    /\ cmd = "start" /\ pc = "BUILDING"
    /\ \E r \in BOOLEAN :
        /\ build_complete' = Some(r)
        /\ IF r THEN /\ CallServer
                     /\ pc' = "SERVING"
                     /\ UNCHANGED <<raised, exit_code>>
                ELSE /\ Return
                     /\ UNCHANGED calls
    /\ UNCHANGED <<cmd, echoed, console, error_message, service_code, idx,
                   startVars, lookupVars>>

\* KeyboardInterrupt or SystemExit raised while build_ui runs
build_interrupted ==
    /\ cmd = "start" /\ pc = "BUILDING"
    /\ \E a \in ExcArgs : OnInterrupt(a)
    /\ UNCHANGED <<cmd, console, calls, build_complete, service_code, idx,
                   startVars, lookupVars>>

\* any other exception raised by build_ui
build_fails ==
    /\ cmd = "start" /\ pc = "BUILDING"
    /\ Propagate("Exception")
    /\ UNCHANGED <<cmd, console, calls, build_complete, service_code, idx,
                   startVars, lookupVars>>

\* start_server returns
server_returns ==
    /\ cmd = "start" /\ pc = "SERVING"
    /\ service_code' = Some(0)
    /\ Return
    /\ UNCHANGED <<cmd, echoed, console, calls, build_complete, error_message,
                   idx, startVars, lookupVars>>

\* the service ends itself with sys.exit: SystemExit raised by start_server
server_exits ==
    /\ cmd = "start" /\ pc = "SERVING"
    /\ \E a \in ExcArgs :
        /\ service_code' = Some(SystemExitCode(a))
        /\ OnInterrupt(a)
    /\ UNCHANGED <<cmd, console, calls, build_complete, idx, startVars, lookupVars>>

\* the operator interrupts the service: KeyboardInterrupt raised by start_server
server_interrupted ==
    /\ cmd = "start" /\ pc = "SERVING"
    /\ \E a \in ExcArgs : OnInterrupt(a)
    /\ UNCHANGED <<cmd, console, calls, build_complete, service_code, idx,
                   startVars, lookupVars>>

\* any other exception raised by start_server
server_fails ==
    /\ cmd = "start" /\ pc = "SERVING"
    /\ Propagate("Exception")
    /\ UNCHANGED <<cmd, console, calls, build_complete, service_code, idx,
                   startVars, lookupVars>>

\* exit status of the process once cli() is over
ProcessExitCode ==
    CASE raised = "None"              -> 0
      [] raised = "typer.Exit"        -> exit_code
      [] raised = "SystemExit"        -> exit_code
      [] raised = "KeyboardInterrupt" -> 130
      [] OTHER                        -> 1

EmptyState == [devices |-> <<>>, directives |-> <<>>,
               plugins |-> [input |-> <<>>, output |-> <<>>],
               params |-> [value |-> "root0", attrs |-> <<>>]]

InitCommon ==
    /\ pc = "entry"
    /\ raised = "None"
    /\ exit_code = 0
    /\ echoed = <<>>
    /\ console = <<>>
    /\ calls = <<>>
    /\ build_complete = None
    /\ error_message = None
    /\ service_code = None
    /\ idx = 0

InitStart ==
    /\ InitCommon
    /\ cmd = "start"
    /\ build \in BOOLEAN
    /\ workers \in {None} \cup {Some(w) : w \in 1 .. MaxWorkers}
    /\ timeout = DefaultTimeout
    /\ search = None
    /\ show_input = FALSE
    /\ show_output = FALSE
    /\ path = None
    /\ state = EmptyState

NextStart ==
    \/ start_build
    \/ start_nobuild
    \/ build_returns
    \/ build_interrupted
    \/ build_fails
    \/ server_returns
    \/ server_exits
    \/ server_interrupted
    \/ server_fails

SpecStart == InitStart /\ [][NextStart]_vars

\* ---------------------------------------------------------------- pattern search
PatChars == {"a", "B", ".", "*", "("}
Patterns == SeqsUpTo(PatChars, MaxPatLen)

Range(s) == {s[i] : i \in DOMAIN s}

\* repr() of text holding no backslash, double quote or control character
Repr(s) == IF "'" \in Range(s) THEN <<"\"">> \o s \o <<"\"">>
           ELSE <<"'">> \o s \o <<"'">>

\* re.compile(search, re.IGNORECASE) raises re.error: an unterminated group,
\* or a repeat with nothing (or another repeat) before it
WellFormed(p) ==
    \A i \in DOMAIN p :
        /\ p[i] # "("
        /\ p[i] = "*" => (i > 1 /\ p[i - 1] # "*")

\* the compiled pattern: atoms, each with or without a "*" repeat
RECURSIVE Compile(_)
Compile(p) ==
    IF p = <<>> THEN <<>>
    ELSE IF Len(p) >= 2 /\ p[2] = "*"
         THEN <<[atom |-> p[1], star |-> TRUE]>> \o Compile(SubSeq(p, 3, Len(p)))
         ELSE <<[atom |-> p[1], star |-> FALSE]>> \o Compile(Tail(p))

Lower(c) == CASE c = "A" -> "a" [] c = "B" -> "b" [] OTHER -> c

\* one atom against one character under re.IGNORECASE
AtomMatches(atom, c) == atom = "." \/ Lower(atom) = Lower(c)

\* pattern.match(s): some prefix of s is matched by the whole pattern
RECURSIVE Match(_, _)
Match(toks, s) ==
    IF toks = <<>> THEN TRUE
    ELSE LET t == Head(toks)
         IN  IF t.star
             THEN \/ Match(Tail(toks), s)
                  \/ (s # <<>> /\ AtomMatches(t.atom, Head(s)) /\ Match(toks, Tail(s)))
             ELSE s # <<>> /\ AtomMatches(t.atom, Head(s)) /\ Match(Tail(toks), Tail(s))

Entity(i, n) == [id |-> i, name |-> n]

EntityPool == {Entity(<<"a", "b">>, <<"B", "a">>),
               Entity(<<"b">>, <<"a", "B">>),
               Entity(<<"A", "a">>, <<"b", "b">>),
               Entity(<<"b", "a">>, <<"A">>)}

Injective(s) == \A i, j \in DOMAIN s : s[i] = s[j] => i = j

Collections == {c \in SeqsUpTo(EntityPool, MaxEntities) : Injective(c)}

Inspect(obj) == [widget |-> "Inspect", items |-> <<obj>>]
Columns(objs) == [widget |-> "Columns", items |-> objs]

\* devices = use_state("devices"); if search is not None: pattern = re.compile(...)
lookup_compile(c) ==
    /\ cmd = c /\ pc = "entry"
    /\ IF search = None
       THEN /\ pc' = "list"
            /\ UNCHANGED <<raised, idx>>
       ELSE IF WellFormed(search[1])
            THEN /\ pc' = "scan"
                 /\ idx' = 1
                 /\ UNCHANGED raised
            ELSE /\ pc' = "done"
                 /\ raised' = "re.error"
                 /\ UNCHANGED idx
    /\ UNCHANGED <<cmd, exit_code, echoed, console, calls, build_complete,
                   error_message, service_code, startVars, lookupVars>>

\* variant: only the name is matched
lookup_scan_nameonly(c) ==
    /\ cmd = c /\ pc = "scan" /\ idx <= Len(state[c])
    /\ LET pattern == Compile(search[1])
           device  == state[c][idx]
       IN  IF Match(pattern, device.name)
           THEN /\ console' = Append(console, Inspect(device))
                /\ raised' = "typer.Exit"
                /\ exit_code' = 0
                /\ pc' = "done"
                /\ UNCHANGED idx
           ELSE /\ idx' = idx + 1
                /\ UNCHANGED <<console, raised, exit_code, pc>>
    /\ UNCHANGED <<cmd, echoed, calls, build_complete, error_message,
                   service_code, startVars, lookupVars>>

\* for device in devices: if pattern.match(device.id) or pattern.match(device.name): ...
lookup_scan(c) ==
    /\ cmd = c /\ pc = "scan" /\ idx <= Len(state[c])
    /\ LET pattern == Compile(search[1])
           device  == state[c][idx]
       IN  IF Match(pattern, device.id) \/ Match(pattern, device.name)
           THEN /\ console' = Append(console, Inspect(device))
                /\ raised' = "typer.Exit"
                /\ exit_code' = 0
                /\ pc' = "done"
                /\ UNCHANGED idx
           ELSE /\ idx' = idx + 1
                /\ UNCHANGED <<console, raised, exit_code, pc>>
    /\ UNCHANGED <<cmd, echoed, calls, build_complete, error_message,
                   service_code, startVars, lookupVars>>

\* variant: a search without a match is reported and exits 1
lookup_list_strict(c) ==
    /\ cmd = c
    /\ pc = "list" \/ (pc = "scan" /\ idx > Len(state[c]))
    /\ IF pc = "scan"
       THEN /\ echoed' = Append(echoed, [level |-> "error", text |-> search[1]])
            /\ raised' = "typer.Exit"
            /\ exit_code' = 1
            /\ pc' = "done"
            /\ UNCHANGED console
       ELSE /\ console' = Append(console, Columns(state[c]))
            /\ Return
            /\ UNCHANGED echoed
    /\ UNCHANGED <<cmd, calls, build_complete, error_message,
                   service_code, idx, startVars, lookupVars>>

\* panels = [Inspect(device, ...) for device in devices]; print(Columns(panels))
lookup_list(c) ==
    /\ cmd = c
    /\ pc = "list" \/ (pc = "scan" /\ idx > Len(state[c]))
    /\ console' = Append(console, Columns(state[c]))
    /\ Return
    /\ UNCHANGED <<cmd, echoed, calls, build_complete, error_message,
                   service_code, idx, startVars, lookupVars>>

devices_compile    == lookup_compile("devices")
devices_scan       == lookup_scan("devices")
devices_list       == lookup_list("devices")
directives_compile == lookup_compile("directives")
directives_scan    == lookup_scan("directives")
directives_list    == lookup_list("directives")

\* ---------------------------------------------------------------- plugins
InputPool  == {Entity(<<"a", "b">>, <<"B", "a">>), Entity(<<"b">>, <<"a", "B">>)}
OutputPool == {Entity(<<"A", "a">>, <<"b", "b">>), Entity(<<"b", "a">>, <<"A">>)}

\* to_fetch and all_plugins
ToFetch == IF show_input THEN <<"input">>
           ELSE IF show_output THEN <<"output">>
           ELSE <<"input", "output">>

RECURSIVE Flatten(_)
Flatten(ss) == IF ss = <<>> THEN <<>> ELSE Head(ss) \o Flatten(Tail(ss))

AllPlugins == Flatten([k \in DOMAIN ToFetch |-> state.plugins[ToFetch[k]]])

\* f"No plugins matching {search!r}"
NoPluginsText(s) == <<"No plugins matching ">> \o Repr(s)

plugins_cmd ==
    /\ cmd = "plugins" /\ pc = "entry"
    /\ pc' = "done"
    /\ IF search = None
       THEN /\ console' = Append(console, Columns(AllPlugins))
            /\ UNCHANGED <<raised, exit_code, echoed>>
       ELSE IF ~WellFormed(search[1])
            THEN /\ raised' = "re.error"
                 /\ UNCHANGED <<exit_code, echoed, console>>
            ELSE LET pattern  == Compile(search[1])
                     matching == SelectSeq(AllPlugins, LAMBDA plugin : Match(pattern, plugin.name))
                 IN  IF Len(matching) = 0
                     THEN /\ echoed' = Append(echoed, [level |-> "error",
                                                       text |-> NoPluginsText(search[1])])
                          /\ raised' = "typer.Exit"
                          /\ exit_code' = 1
                          /\ UNCHANGED console
                     ELSE /\ console' = Append(console, Columns(matching))
                          /\ raised' = "typer.Exit"
                          /\ exit_code' = 0
                          /\ UNCHANGED echoed
    /\ UNCHANGED <<cmd, calls, build_complete, error_message, service_code, idx,
                   startVars, lookupVars>>

InitLookup ==
    /\ InitCommon
    /\ cmd \in {"devices", "directives"}
    /\ build = FALSE
    /\ workers = None
    /\ timeout = DefaultTimeout
    /\ search \in {None} \cup {Some(p) : p \in Patterns}
    /\ show_input = FALSE
    /\ show_output = FALSE
    /\ path = None
    /\ \E coll \in Collections : state = [EmptyState EXCEPT ![cmd] = coll]

InitPlugins ==
    /\ InitCommon
    /\ cmd = "plugins"
    /\ build = FALSE
    /\ workers = None
    /\ timeout = DefaultTimeout
    /\ search \in {None} \cup {Some(p) : p \in Patterns}
    /\ show_input \in BOOLEAN
    /\ show_output \in BOOLEAN
    /\ path = None
    /\ \E i \in {c \in SeqsUpTo(InputPool, MaxPlugins) : Injective(c)},
          o \in {c \in SeqsUpTo(OutputPool, MaxPlugins) : Injective(c)} :
          state = [EmptyState EXCEPT !.plugins = [input |-> i, output |-> o]]

InitSearch == InitLookup \/ InitPlugins

NextSearch ==
    \/ devices_compile
    \/ devices_scan
    \/ devices_list
    \/ directives_compile
    \/ directives_scan
    \/ directives_list
    \/ plugins_cmd

SpecSearch == InitSearch /\ [][NextSearch]_vars

\* ---------------------------------------------------------------- params
PathChars == {"a", "b", ".", "'"}
Paths == SeqsUpTo(PathChars, MaxPathLen)

Leaf(v) == [value |-> v, attrs |-> <<>>]
Node(v, a) == [value |-> v, attrs |-> a]

\* the parameter trees the state store may hold
ConfigRoots ==
    {Node("root1", (<<"a">> :> Node("a", (<<"b">> :> Leaf("a.b")) @@ (<<"a", "b">> :> Leaf("a.ab"))))
                   @@ (<<"b">> :> Leaf("b"))),
     Node("root2", (<<"b">> :> Node("b", (<<"a">> :> Node("b.a", (<<"a">> :> Leaf("b.a.a")))))))}

\* variant: empty segments are dropped
RECURSIVE Split_skipempty(_)
Split_skipempty(s) ==
    IF "." \notin Range(s) THEN (IF s = <<>> THEN <<>> ELSE <<s>>)
    ELSE LET i == CHOOSE k \in DOMAIN s : s[k] = "." /\ \A j \in 1 .. k - 1 : s[j] # "."
         IN  (IF i = 1 THEN <<>> ELSE <<SubSeq(s, 1, i - 1)>>)
             \o Split_skipempty(SubSeq(s, i + 1, Len(s)))

\* attr.split(".")
RECURSIVE Split(_)
Split(s) ==
    IF "." \notin Range(s) THEN <<s>>
    ELSE LET i == CHOOSE k \in DOMAIN s : s[k] = "." /\ \A j \in 1 .. k - 1 : s[j] # "."
         IN  <<SubSeq(s, 1, i - 1)>> \o Split(SubSeq(s, i + 1, Len(s)))

\* attrgetter(path)(obj): getattr along the names, AttributeError at the first miss
RECURSIVE Resolve(_, _)
Resolve(obj, names) ==
    IF names = <<>> THEN [ok |-> TRUE, value |-> obj]
    ELSE IF Head(names) \in DOMAIN obj.attrs
         THEN Resolve(obj.attrs[Head(names)], Tail(names))
         ELSE [ok |-> FALSE, value |-> obj]

AttrGetter(p, obj) == Resolve(obj, Split(p))

ParamsPrefix == <<"p", "a", "r", "a", "m", "s", ".">>
DoesNotExist == <<" ", "d", "o", "e", "s", " ", "n", "o", "t", " ", "e", "x", "i", "s", "t">>

\* f"{'params.' + path!r} does not exist"
NotFoundText(p) == Repr(ParamsPrefix \o p) \o DoesNotExist

params_cmd ==
    /\ cmd = "params" /\ pc = "entry"
    /\ pc' = "done"
    /\ IF path = None
       THEN /\ console' = Append(console, Inspect(state.params))
            /\ UNCHANGED <<raised, exit_code, echoed>>
       ELSE LET value == AttrGetter(path[1], state.params)
            IN  IF value.ok
                THEN /\ console' = Append(console, Inspect(value.value))
                     /\ raised' = "typer.Exit"
                     /\ exit_code' = 0
                     /\ UNCHANGED echoed
                ELSE /\ echoed' = Append(echoed, [level |-> "error",
                                                  text |-> NotFoundText(path[1])])
                     /\ raised' = "typer.Exit"
                     /\ exit_code' = 1
                     /\ UNCHANGED console
    /\ UNCHANGED <<cmd, calls, build_complete, error_message, service_code, idx,
                   startVars, lookupVars>>

InitParams ==
    /\ InitCommon
    /\ cmd = "params"
    /\ build = FALSE
    /\ workers = None
    /\ timeout = DefaultTimeout
    /\ search = None
    /\ show_input = FALSE
    /\ show_output = FALSE
    /\ path \in {None} \cup {Some(p) : p \in Paths}
    /\ \E root \in ConfigRoots : state = [EmptyState EXCEPT !.params = root]

NextParams == params_cmd

SpecParams == InitParams /\ [][NextParams]_vars

\* ---------------------------------------------------------------- other commands
Timeouts == {5, DefaultTimeout}

\* --version: echo.info(__version__); raise typer.Exit()
version_callback ==
    /\ cmd = "--version" /\ pc = "entry"
    /\ echoed' = Append(echoed, [level |-> "info", text |-> <<"__version__">>])
    /\ raised' = "typer.Exit"
    /\ exit_code' = 0
    /\ pc' = "done"
    /\ UNCHANGED <<cmd, console, calls, build_complete, error_message,
                   service_code, idx, startVars, lookupVars>>

\* build-ui: do_build_ui(timeout=timeout)
buildui_call ==
    /\ cmd = "build-ui" /\ pc = "entry"
    /\ calls' = Append(calls, [fn |-> "build_ui", arg |-> Some(timeout)])
    /\ pc' = "BUILDING"
    /\ UNCHANGED <<cmd, raised, exit_code, echoed, console, build_complete,
                   error_message, service_code, idx, startVars, lookupVars>>

\* build_ui returns; its result is not looked at
buildui_returns ==
    /\ cmd = "build-ui" /\ pc = "BUILDING"
    /\ Return
    /\ UNCHANGED <<cmd, echoed, console, calls, build_complete, error_message,
                   service_code, idx, startVars, lookupVars>>

\* build_ui raises an Exception: nothing in the handler catches it
buildui_fails ==
    /\ cmd = "build-ui" /\ pc = "BUILDING"
    /\ Propagate("Exception")
    /\ UNCHANGED <<cmd, console, calls, build_complete, service_code, idx,
                   startVars, lookupVars>>

\* build_ui raises SystemExit: it leaves the handler with its own status
buildui_exits ==
    /\ cmd = "build-ui" /\ pc = "BUILDING"
    /\ \E a \in ExcArgs : PropagateExit(a)
    /\ UNCHANGED <<cmd, console, calls, build_complete, service_code, idx,
                   startVars, lookupVars>>

\* build_ui raises KeyboardInterrupt: it leaves the handler as it is
buildui_interrupted ==
    /\ cmd = "build-ui" /\ pc = "BUILDING"
    /\ Propagate("KeyboardInterrupt")
    /\ UNCHANGED <<cmd, console, calls, build_complete, service_code, idx,
                   startVars, lookupVars>>

ClearedText == <<"Cleared Redis Cache">>
ClearErrorText(m) == <<"Error clearing cache: ">> \o m

\* clear-cache: state.clear(), reported; an Exception exits 1, with the
\* traceback printed when stdout is not a terminal; KeyboardInterrupt and
\* SystemExit are not Exceptions and leave the handler
clear_cache_cmd ==
    /\ cmd = "clear-cache" /\ pc = "entry"
    /\ calls' = Append(calls, [fn |-> "state.clear", arg |-> None])
    /\ pc' = "done"
    /\ \/ /\ state' = EmptyState
          /\ echoed' = Append(echoed, [level |-> "success", text |-> ClearedText])
          /\ UNCHANGED <<raised, exit_code, console>>
       \/ \E isatty \in BOOLEAN, m \in Messages :
          /\ IF ~isatty
             THEN /\ console' = Append(console, [widget |-> "print_exception", items |-> <<>>])
                  /\ UNCHANGED echoed
             ELSE /\ echoed' = Append(echoed, [level |-> "error", text |-> ClearErrorText(m)])
                  /\ UNCHANGED console
          /\ raised' = "typer.Exit"
          /\ exit_code' = 1
          /\ UNCHANGED state
       \/ /\ raised' = "KeyboardInterrupt"
          /\ UNCHANGED <<exit_code, echoed, console, state>>
       \/ \E a \in ExcArgs :
          /\ raised' = "SystemExit"
          /\ exit_code' = SystemExitCode(a)
          /\ UNCHANGED <<echoed, console, state>>
    /\ UNCHANGED <<cmd, build_complete, error_message, service_code, idx,
                   startVars, search, show_input, show_output, path>>

\* system-info: the notice panel, then the table of get_system_info()
system_info_cmd ==
    /\ cmd = "system-info" /\ pc = "entry"
    /\ console' = Append(console, [widget |-> "Panel", items |-> <<>>])
    /\ echoed' = Append(echoed, [level |-> "plain", text |-> <<"Table">>])
    /\ Return
    /\ UNCHANGED <<cmd, calls, build_complete, error_message, service_code, idx,
                   startVars, lookupVars>>

\* settings: echo.plain(Settings)
settings_cmd ==
    /\ cmd = "settings" /\ pc = "entry"
    /\ echoed' = Append(echoed, [level |-> "plain", text |-> <<"Settings">>])
    /\ Return
    /\ UNCHANGED <<cmd, console, calls, build_complete, error_message,
                   service_code, idx, startVars, lookupVars>>

\* setup: with Installer() as start: start()
setup_cmd ==
    /\ cmd = "setup" /\ pc = "entry"
    /\ calls' = Append(calls, [fn |-> "Installer", arg |-> None])
    /\ \/ Return /\ UNCHANGED <<echoed, error_message>>
       \/ Uncaught
    /\ UNCHANGED <<cmd, console, build_complete, service_code, idx,
                   startVars, lookupVars>>

InitOther ==
    /\ InitCommon
    /\ cmd \in {"--version", "build-ui", "clear-cache", "system-info", "settings", "setup"}
    /\ build = FALSE
    /\ workers = None
    /\ timeout \in (IF cmd = "build-ui" THEN Timeouts ELSE {DefaultTimeout})
    /\ search = None
    /\ show_input = FALSE
    /\ show_output = FALSE
    /\ path = None
    /\ \E coll \in (IF cmd = "clear-cache" THEN Collections ELSE {<<>>}) :
          state = [EmptyState EXCEPT !.devices = coll]

NextOther ==
    \/ version_callback
    \/ buildui_call
    \/ buildui_returns
    \/ buildui_fails
    \/ buildui_exits
    \/ buildui_interrupted
    \/ clear_cache_cmd
    \/ system_info_cmd
    \/ settings_cmd
    \/ setup_cmd

SpecOther == InitOther /\ [][NextOther]_vars

\* ---------------------------------------------------------------- the CLI
Init == InitStart \/ InitSearch \/ InitParams \/ InitOther

Next == NextStart \/ NextSearch \/ NextParams \/ NextOther

Spec == Init /\ [][Next]_vars

Done == pc = "done"

\* ---------------------------------------------------------------- claims: start
ServerCalls == {i \in DOMAIN calls : calls[i].fn = "start_server"}
BuildCalls  == {i \in DOMAIN calls : calls[i].fn = "build_ui"}
BuildFailed == build /\ build_complete = Some(FALSE)
Interrupted == error_message # None
Notices  == {i \in DOMAIN echoed : echoed[i].level = "error" /\ echoed[i].text = StoppingNotice}
Warnings == {i \in DOMAIN echoed : echoed[i].level = "warning"}

\* C1: in a run of start with the build flag set, once build_ui has returned
\* false, start_server is not invoked in that state or in any later one.
C1_BuildGate ==
    BuildFailed => (ServerCalls = {} /\ pc = "done")

C1_Witness == Done /\ BuildFailed /\ Len(calls) = 1

\* C2 (as claimed): when start runs with the build flag set and build_ui
\* returns false, the command ends with a nonzero exit code.
C2_BuildFailureExitsNonzero ==
    (Done /\ BuildFailed) => ProcessExitCode # 0

\* C3 (as claimed): when the service ends by itself, start ends with the
\* service's own exit code unchanged.
C3_ServiceCodePassedThrough ==
    (Done /\ service_code # None) => ProcessExitCode = service_code[1]

\* C4: an interrupt caught while BUILDING or SERVING ends the run with exit
\* code 0 and exactly one stopping notice, the last thing reported; the
\* interrupt message is reported as a warning, once and before the notice,
\* exactly when its length is greater than 1.
C4_InterruptedStop ==
    (Done /\ Interrupted) =>
        /\ raised = "typer.Exit"
        /\ ProcessExitCode = 0
        /\ Cardinality(Notices) = 1
        /\ Notices = {Len(echoed)}
        /\ IF Len(error_message[1]) > 1
           THEN /\ Len(echoed) = 2
                /\ echoed[1] = [level |-> "warning", text |-> error_message[1]]
           ELSE Warnings = {} /\ Len(echoed) = 1

C4_Witness ==
    /\ Done /\ Interrupted
    /\ ServerCalls # {}
    /\ error_message = Some(<<"1", "0">>)
    /\ Len(echoed) = 2

\* C5: in a run of start, start_server is invoked at most once and always
\* with the requested worker count; it has been invoked exactly once as soon as the handler is
\* past the build stage with no build requested or with build_ui having
\* returned true; with a build requested it is invoked only after build_ui
\* was called and returned true; build_ui is invoked at most once, with a
\* timeout of 180, and only when a build was requested.
C5_ServerOnceAfterBuild ==
    cmd = "start" =>
        /\ Cardinality(BuildCalls) <= 1
        /\ \A i \in BuildCalls : build /\ calls[i].arg = Some(180)
        /\ Cardinality(ServerCalls) <= 1
        /\ \A i \in ServerCalls : calls[i].arg = workers
        /\ (pc \in {"SERVING", "done"}
                /\ (~build \/ build_complete = Some(TRUE)))
               => Cardinality(ServerCalls) = 1
        /\ \A i \in ServerCalls :
               build => (build_complete = Some(TRUE) /\ \E j \in BuildCalls : j < i)

C5_Witness ==
    /\ Done /\ build /\ build_complete = Some(TRUE)
    /\ workers = Some(2)
    /\ calls = <<[fn |-> "build_ui", arg |-> Some(180)],
                 [fn |-> "start_server", arg |-> Some(2)]>>

\* ---------------------------------------------------------------- claims: search
LookupCmds == {"devices", "directives"}
Searching == cmd \in LookupCmds /\ search # None /\ WellFormed(search[1])
Hit(e) == Match(Compile(search[1]), e.id) \/ Match(Compile(search[1]), e.name)
HitIdx == {i \in DOMAIN state[cmd] : Hit(state[cmd][i])}
FirstHit == CHOOSE i \in HitIdx : \A j \in HitIdx : i <= j

\* C6: devices / directives with a search pattern that at least one entity's
\* id or name matches: exactly one entity is shown, the first matching one in
\* collection order, the scan never goes past it, and the command exits 0.
C6_FirstMatchShown ==
    (Searching /\ HitIdx # {}) =>
        /\ idx <= FirstHit
        /\ Done => /\ console = <<Inspect(state[cmd][FirstHit])>>
                   /\ idx = FirstHit
                   /\ raised = "typer.Exit"
                   /\ ProcessExitCode = 0
                   /\ echoed = <<>>

C6_Witness ==
    /\ Done /\ Searching
    /\ Cardinality(HitIdx) >= 2
    /\ FirstHit = 2
    /\ ~Match(Compile(search[1]), state[cmd][2].name)
    /\ console = <<Inspect(state[cmd][2])>>

\* C7 (as claimed): plugins with a search pattern shows exactly the plugins
\* whose id or name matches the pattern, in collection order.
C7_PluginsIdOrName ==
    (Done /\ cmd = "plugins" /\ search # None /\ WellFormed(search[1])) =>
        LET expected == SelectSeq(AllPlugins, Hit)
        IN  expected # <<>> => console = <<Columns(expected)>>

\* C8 (as claimed): a search string that is not a well-formed regular
\* expression ends the command in a reported error with a nonzero exit code
\* raised by the handler itself; re.error never leaves the handler.
C8_InvalidPatternReported ==
    (Done /\ cmd \in LookupCmds \cup {"plugins"} /\ search # None /\ ~WellFormed(search[1])) =>
        /\ raised = "typer.Exit"
        /\ exit_code # 0
        /\ echoed # <<>>

\* C10: devices / directives with a search pattern that no entity matches
\* (the empty collection included): nothing is reported as an error, the
\* whole collection is shown in collection order and the command exits 0,
\* which is also the outcome of a run without a pattern.
C10_NoMatchListsAll ==
    (Done /\ cmd \in LookupCmds /\ (search = None \/ (Searching /\ HitIdx = {}))) =>
        /\ console = <<Columns(state[cmd])>>
        /\ echoed = <<>>
        /\ raised = "None"
        /\ ProcessExitCode = 0

C10_Witness ==
    /\ Done /\ Searching /\ HitIdx = {}
    /\ Len(search[1]) >= 1
    /\ Len(state[cmd]) >= 2
    /\ idx = Len(state[cmd]) + 1
    /\ console = <<Columns(state[cmd])>>

\* ---------------------------------------------------------------- claims: params
Dots(d) == {i \in DOMAIN d : d[i] = "."}
NSeg(d) == Cardinality(Dots(d)) + 1

\* position of the k-th separator; 0 and Len(d) + 1 close the ends
Boundary(d, k) ==
    IF k = 0 THEN 0
    ELSE IF k = NSeg(d) THEN Len(d) + 1
    ELSE CHOOSE i \in Dots(d) : Cardinality({j \in Dots(d) : j <= i}) = k

Segment(d, k) == SubSeq(d, Boundary(d, k - 1) + 1, Boundary(d, k) - 1)

\* one attribute access after the other, segment by segment
ManualAccess(root, d) ==
    LET obj[k \in 0 .. NSeg(d)] ==
            IF k = 0 THEN Some(root)
            ELSE IF obj[k - 1] # None /\ Segment(d, k) \in DOMAIN obj[k - 1][1].attrs
                 THEN Some(obj[k - 1][1].attrs[Segment(d, k)])
                 ELSE None
    IN  obj[NSeg(d)]

HasEmptySegment(d) ==
    \/ d = <<>>
    \/ d[1] = "."
    \/ d[Len(d)] = "."
    \/ \E i \in 1 .. Len(d) - 1 : d[i] = "." /\ d[i + 1] = "."

\* what the error message says does not exist
ReportedPath ==
    SubSeq(echoed[1].text, 1, Len(echoed[1].text) - Len(DoesNotExist))

Unquoted(s) == SubSeq(s, 2, Len(s) - 1)

ParamsOutcome(reported(_)) ==
    (Done /\ cmd = "params" /\ path # None) =>
        LET d      == path[1]
            target == ManualAccess(state.params, d)
        IN  /\ raised = "typer.Exit"
            /\ HasEmptySegment(d) => ProcessExitCode = 1
            /\ IF target # None
               THEN /\ console = <<Inspect(target[1])>>
                    /\ echoed = <<>>
                    /\ ProcessExitCode = 0
               ELSE /\ console = <<>>
                    /\ ProcessExitCode = 1
                    /\ Len(echoed) = 1
                    /\ echoed[1].level = "error"
                    /\ echoed[1].text = ReportedPath \o DoesNotExist
                    /\ reported(d)

\* C9 (as claimed): a path whose segments all resolve is shown with exit 0;
\* a path with a missing or empty segment exits 1 and the path reported is
\* the path exactly as given.
C9_ReportsPathVerbatim ==
    ParamsOutcome(LAMBDA d : ReportedPath = d)

\* C9 (amended): a path whose segments all resolve is shown with exit 0; a
\* path with a missing or empty segment exits 1 and the path reported is the
\* quoted text "params." followed by the whole path as given.
C9_ReportsPrefixedPath ==
    ParamsOutcome(LAMBDA d : /\ Unquoted(ReportedPath) = ParamsPrefix \o d
                             /\ ReportedPath[1] = ReportedPath[Len(ReportedPath)]
                             /\ ReportedPath[1] \in {"'", "\""})

C9_Witness ==
    /\ Done /\ cmd = "params"
    /\ path = Some(<<"a", ".", "a">>)
    /\ <<"a">> \in DOMAIN state.params.attrs
    /\ ProcessExitCode = 1
    /\ echoed = <<[level |-> "error",
                   text |-> <<"'", "p", "a", "r", "a", "m", "s", ".", "a", ".", "a", "'">>
                            \o DoesNotExist]>>
====
